---- MODULE Spec2Model ----
(***************************************************************************)
(* A model of dolph.ts: the process-wide connection state (_db, _config),  *)
(* the configuration resolver, the query classifier and limiter, the five  *)
(* task executors, the dispatcher executeMySQLTask and the tool wrappers.  *)
(*                                                                         *)
(* JavaScript runs one continuation at a time; a call is suspended only at *)
(* an await.  Every action below is the code that runs between two awaits  *)
(* of one call, so the interleavings of the model are the interleavings    *)
(* the event loop can produce.                                             *)
(*                                                                         *)
(* Strings are sequences of tokens (a keyword, a blank, a comment, a       *)
(* number), so that trim, toUpperCase, startsWith and includes are         *)
(* computed and not assumed.  A JavaScript object with optional keys is a  *)
(* function whose DOMAIN holds the keys that are present.                  *)
(***************************************************************************)
EXTENDS Integers, Sequences, FiniteSets, TLC

VARIABLES _db, _config, env, handles, calls, store, probe

vars == <<_db, _config, env, handles, calls, store, probe>>

(***************************************************************************)
(* Bounds of the model.                                                    *)
(***************************************************************************)
\* calls (task, tool, closeConnection, configureAgent) in flight at one time
MaxCalls == 2
\* connection handles that exist at one time
MaxHandles == 2
\* rows the modelled table can hold
MaxRows == 2
\* rows in the table at the start
SeedRows == 1
\* largest elapsed time a timer reports
MaxElapsed == 0

Calls == 1..MaxCalls
Handles == 1..MaxHandles

\* an object with no keys, and the empty string of tokens
NoKeys == <<>>

Has(o, k) == k \in DOMAIN o

(***************************************************************************)
(* JavaScript numbers: an integer or NaN.                                  *)
(***************************************************************************)
Num(n) == [nan |-> FALSE, n |-> n]
NaN == [nan |-> TRUE, n |-> 0]
NumTruthy(x) == ~x.nan /\ x.n # 0
\* `${limit}` in a template string
NumToString(x) == IF x.nan THEN "NaN" ELSE ToString(x.n)

(***************************************************************************)
(* Strings as token sequences.                                             *)
(***************************************************************************)
WhiteSpace == {" ", "\n", "\t"}

RECURSIVE trimStart(_)
trimStart(s) ==
    IF s # <<>> /\ Head(s) \in WhiteSpace THEN trimStart(Tail(s)) ELSE s

RECURSIVE trimEnd(_)
trimEnd(s) ==
    IF s # <<>> /\ s[Len(s)] \in WhiteSpace
    THEN trimEnd(SubSeq(s, 1, Len(s) - 1))
    ELSE s

\* String.prototype.trim
trim(s) == trimEnd(trimStart(s))

\* toUpperCase of one token: the lower- and mixed-case spellings the inputs use
UpperTok(t) ==
    CASE t = "select" -> "SELECT"
      [] t = "Select" -> "SELECT"
      [] t = "insert" -> "INSERT"
      [] t = "Insert" -> "INSERT"
      [] t = "delete" -> "DELETE"
      [] t = "update" -> "UPDATE"
      [] t = "limit" -> "LIMIT"
      [] t = "show" -> "SHOW"
      [] t = "describe" -> "DESCRIBE"
      [] t = "inserted" -> "INSERTED"
      [] t = "x" -> "X"
      [] OTHER -> t

\* String.prototype.toUpperCase
toUpperCase(s) == [i \in 1..Len(s) |-> UpperTok(s[i])]

\* String.prototype.includes
includes(s, sub) ==
    \E i \in 0..(Len(s) - Len(sub)) : SubSeq(s, i + 1, i + Len(sub)) = sub

\* the letters of word begin with those of kw: a word is one token, and
\* these are the words of the inputs that are longer than a keyword
BeginsWith(word, kw) ==
    \/ word = kw
    \/ word = "INSERTED" /\ kw = "INSERT"
    \/ word = "SELECTED" /\ kw = "SELECT"

\* String.prototype.startsWith, for a prefix of one keyword
startsWith(s, tok) == s # <<>> /\ BeginsWith(Head(s), tok)

(***************************************************************************)
(* parseInt(s, 10) on a string of characters: blanks are skipped, a sign   *)
(* is read, the longest run of digits is the value; no digit gives NaN.    *)
(***************************************************************************)
DigitChars == {"0", "1", "2", "3", "4", "5", "6", "7", "8", "9"}

DigitVal(ch) ==
    CASE ch = "0" -> 0 [] ch = "1" -> 1 [] ch = "2" -> 2 [] ch = "3" -> 3
      [] ch = "4" -> 4 [] ch = "5" -> 5 [] ch = "6" -> 6 [] ch = "7" -> 7
      [] ch = "8" -> 8 [] ch = "9" -> 9

RECURSIVE parseDigits(_, _)
parseDigits(s, acc) ==
    IF s # <<>> /\ Head(s) \in DigitChars
    THEN parseDigits(Tail(s), 10 * acc + DigitVal(Head(s)))
    ELSE acc

parseInt(str) ==
    LET t == trimStart(str)
        neg == t # <<>> /\ Head(t) = "-"
        signed == t # <<>> /\ Head(t) \in {"-", "+"}
        d == IF signed THEN Tail(t) ELSE t
    IN  IF d = <<>> \/ Head(d) \notin DigitChars
        THEN NaN
        ELSE Num((IF neg THEN -1 ELSE 1) * parseDigits(d, 0))

(***************************************************************************)
(* Configuration resolver.                                                 *)
(***************************************************************************)
\* the mutant of Spread: the object is replaced, not merged
SpreadReplacing(a, b) == b

\* { ..._config, ...config }: the keys of b replace those of a
Spread(a, b) ==
    [k \in DOMAIN a \cup DOMAIN b |-> IF k \in DOMAIN b THEN b[k] ELSE a[k]]

\* o.k of an object whose values are strings: undefined and "" are both falsy
StrOf(o, k) == IF Has(o, k) THEN o[k] ELSE ""

\* a || b || c on strings
StrOr(a, b, c) == IF a # "" THEN a ELSE IF b # "" THEN b ELSE c

\* Bun.env.K || dflt, for a numeric variable (a string of characters)
EnvChars(k, dflt) == IF Has(env, k) /\ env[k] # <<>> THEN env[k] ELSE dflt

\* _config.k || parseInt(Bun.env.K || dflt, 10)
NumOr(k, envKey, dflt) ==
    IF Has(_config, k) /\ NumTruthy(_config[k])
    THEN _config[k]
    ELSE parseInt(EnvChars(envKey, dflt))

getConfig ==
    [ openaiApiKey |-> StrOr(StrOf(_config, "openaiApiKey"), StrOf(env, "OPENAI_API_KEY"), ""),
      mysqlUrl |-> StrOr(StrOf(_config, "mysqlUrl"), StrOf(env, "MYSQL_URL"), ""),
      mysqlHost |-> StrOr(StrOf(_config, "mysqlHost"), StrOf(env, "MYSQL_HOST"), "localhost"),
      mysqlPort |-> NumOr("mysqlPort", "MYSQL_PORT", <<"3", "3", "0", "6">>),
      mysqlUser |-> StrOr(StrOf(_config, "mysqlUser"), StrOf(env, "MYSQL_USER"), "root"),
      mysqlPass |-> StrOr(StrOf(_config, "mysqlPass"), StrOf(env, "MYSQL_PASS"), ""),
      mysqlDb |-> StrOr(StrOf(_config, "mysqlDb"), StrOf(env, "MYSQL_DB"), "mysql"),
      allowWrite |->
          IF Has(_config, "allowWrite")
          THEN _config.allowWrite
          ELSE Has(env, "MYSQL_ALLOW_WRITE") /\ env.MYSQL_ALLOW_WRITE = "true",
      rowLimit |-> NumOr("rowLimit", "MYSQL_ROW_LIMIT", <<"1", "0", "0", "0">>),
      model |-> StrOr(StrOf(_config, "model"), StrOf(env, "AGENT_MODEL"), "gpt-4o-mini"),
      maxTurns |-> NumOr("maxTurns", "AGENT_MAX_TURNS", <<"1", "0">>) ]

\* the mutant of getConnectionConfig: the URL is added to the discrete values
getConnectionConfigUrlAdded ==
    LET config == getConfig
        discrete == [ host |-> config.mysqlHost,
                      port |-> config.mysqlPort,
                      user |-> config.mysqlUser,
                      password |-> config.mysqlPass,
                      database |-> config.mysqlDb ]
    IN  IF config.mysqlUrl # ""
        THEN Spread(discrete, [uri |-> config.mysqlUrl])
        ELSE discrete

getConnectionConfig ==
    LET config == getConfig
    IN  IF config.mysqlUrl # ""
        THEN [uri |-> config.mysqlUrl]
        ELSE [ host |-> config.mysqlHost,
               port |-> config.mysqlPort,
               user |-> config.mysqlUser,
               password |-> config.mysqlPass,
               database |-> config.mysqlDb ]

(***************************************************************************)
(* Query classifier and limiter.                                           *)
(***************************************************************************)
WRITE_PATTERNS ==
    {"INSERT", "UPDATE", "DELETE", "DROP", "CREATE", "ALTER", "TRUNCATE", "REPLACE"}

\* the mutant of isWriteQuery: the statement is tested without trim()
isWriteQueryNoTrim(sql) ==
    sql # <<>> /\ \E kw \in WRITE_PATTERNS : BeginsWith(UpperTok(Head(sql)), kw)

\* /^(INSERT|...)/i.test(sql.trim())
isWriteQuery(sql) ==
    LET t == trim(sql)
    IN  t # <<>> /\ \E kw \in WRITE_PATTERNS : BeginsWith(UpperTok(Head(t)), kw)

\* the mutant of enforceLimit: a SELECT is given the limit whether or not it
\* holds ' LIMIT '
enforceLimitUnchecked(sql, limit) ==
    LET normalized == toUpperCase(trim(sql))
    IN  IF startsWith(normalized, "SELECT")
        THEN trim(sql) \o <<" ", "LIMIT", " ", NumToString(limit)>>
        ELSE sql

\* the mutant of enforceLimit: the statement is tested without toUpperCase()
enforceLimitCaseSensitive(sql, limit) ==
    LET normalized == trim(sql)
    IN  IF startsWith(normalized, "SELECT") /\ ~includes(normalized, <<" ", "LIMIT", " ">>)
        THEN trim(sql) \o <<" ", "LIMIT", " ", NumToString(limit)>>
        ELSE sql

enforceLimit(sql, limit) ==
    LET normalized == toUpperCase(trim(sql))
    IN  IF startsWith(normalized, "SELECT") /\ ~includes(normalized, <<" ", "LIMIT", " ">>)
        THEN trim(sql) \o <<" ", "LIMIT", " ", NumToString(limit)>>
        ELSE sql

(***************************************************************************)
(* The database server behind db.execute: it skips blanks and comments,    *)
(* reads the statement's first keyword in any case, and acts on it.        *)
(***************************************************************************)
Comments == {"/*c*/"}

RECURSIVE skipBlanksAndComments(_)
skipBlanksAndComments(s) ==
    IF s # <<>> /\ Head(s) \in WhiteSpace \cup Comments
    THEN skipBlanksAndComments(Tail(s))
    ELSE s

ServerKeyword(stmt) ==
    LET t == skipBlanksAndComments(stmt)
    IN  IF t = <<>> THEN "" ELSE UpperTok(Head(t))

\* the statements that change data or schema when the server runs them
Modifies(stmt) ==
    ServerKeyword(stmt) \in
        {"INSERT", "UPDATE", "DELETE", "DROP", "CREATE", "ALTER", "TRUNCATE", "REPLACE", "RENAME"}

\* the server accepts the statement in this state of the table
ServerAccepts(stmt, st) ==
    ServerKeyword(stmt) \in {"INSERT", "REPLACE"} => st.rows < MaxRows

\* the stored data after the server has run the statement
ServerApply(stmt, st) ==
    CASE ServerKeyword(stmt) \in {"INSERT", "REPLACE"} -> [st EXCEPT !.rows = @ + 1]
      [] ServerKeyword(stmt) \in {"DELETE", "TRUNCATE"} -> [st EXCEPT !.rows = 0]
      [] OTHER -> st

\* the LIMIT a statement carries, when it is one the table can exceed
ServerLimit(stmt) ==
    LET u == toUpperCase(stmt)
        at == {i \in 1..(Len(u) - 2) : u[i] = "LIMIT" /\ u[i + 1] \in WhiteSpace}
        caps == {n \in 0..MaxRows : \E i \in at : u[i + 2] = ToString(n)}
    IN  IF caps = {} THEN MaxRows ELSE CHOOSE n \in caps : \A m \in caps : n <= m

\* rows.length of the result: a SELECT returns the rows, cut at its LIMIT;
\* any other statement returns a header, which is not an array
RowCount(stmt, st) ==
    IF ServerKeyword(stmt) = "SELECT"
    THEN IF st.rows < ServerLimit(stmt) THEN st.rows ELSE ServerLimit(stmt)
    ELSE 0

(***************************************************************************)
(* Error messages, as token strings.                                       *)
(***************************************************************************)
ErrCallerGate == <<"Write operations require ", "allowWrite", "=true parameter">>
ErrConfigGate ==
    <<"Write operations disabled by configuration. Set ", "MYSQL_ALLOW_WRITE", "=true">>
ErrUnknownTask == <<"Unknown task: ", "bogus">>
ErrTypeError == <<"TypeError: undefined is not an object">>
ErrConnection == <<"connect ECONNREFUSED">>
ErrDriver == <<"driver error">>
ErrClosedState == <<"Can't add new command when connection is in closed state">>
ErrConnectionLost == <<"Connection lost: The server closed the connection.">>
ErrBindUndefined == <<"Bind parameters must not contain undefined">>
ErrAgentRun == <<"agent run failed">>

(***************************************************************************)
(* Inputs.                                                                 *)
(***************************************************************************)
SqlSelect == <<"SELECT", " ", "*">>
SqlInsert == <<" ", "insert", " ", "x">>
SqlCommentDelete == <<"/*c*/", " ", "DELETE", " ", "x">>
SqlSelectLimit == <<"SELECT", " ", "*", " ", "LIMIT", " ", "2">>

SqlInputs == {SqlSelect, SqlInsert, SqlCommentDelete}

\* the params of a query task: allowWrite omitted, or given
QueryParamsInputs ==
    { [sql |-> s] : s \in SqlInputs } \cup { [sql |-> SqlInsert, allowWrite |-> TRUE] }

\* the tasks a caller starts while another call is in flight
OverlapInputs == { [task |-> "test-connection"] }

TaskInputs ==
    { [task |-> "test-connection"],
      [task |-> "get-schema", params |-> [tableName |-> "users"]],
      [task |-> "get-schema"],
      [task |-> "get-schema", params |-> NoKeys],
      [task |-> "query", params |-> NoKeys],
      [task |-> "chat", params |-> [message |-> "hi"]],
      [task |-> "bogus"] }
        \cup { [task |-> "query", params |-> p] : p \in QueryParamsInputs }

\* the tables of the database in name order, as information_schema lists them
Tables ==
    << [table_name |-> "users", table_type |-> "BASE TABLE"],
       [table_name |-> "v_users", table_type |-> "VIEW"] >>

\* a database with one more base table
TablesTwoBase ==
    << [table_name |-> "orders", table_type |-> "BASE TABLE"],
       [table_name |-> "users", table_type |-> "BASE TABLE"],
       [table_name |-> "v_users", table_type |-> "VIEW"] >>

\* the most tables a database of the model has
MaxTables == 3

\* the requests of the catalog tasks: a table that exists and one that does
\* not, the listing plain and enriched, every schema
CatalogInputs ==
    { [task |-> "get-schema", params |-> [tableName |-> "users"]],
      [task |-> "get-schema", params |-> [tableName |-> "ghost"]],
      [task |-> "list-tables"],
      [task |-> "list-tables", params |-> [includeRowCounts |-> TRUE]],
      [task |-> "get-all-schemas"] }

\* what the model runtime passes to each of the five tools, after the
\* schemas' defaults, as the executor's task
AllToolInputs ==
    { [task |-> "test-connection"],
      [task |-> "get-schema", params |-> [tableName |-> "users"]],
      [task |-> "get-all-schemas"],
      [task |-> "query", params |-> [sql |-> SqlSelect, allowWrite |-> FALSE]],
      [task |-> "query", params |-> [sql |-> SqlSelectLimit, allowWrite |-> FALSE]],
      [task |-> "query", params |-> [sql |-> SqlInsert, allowWrite |-> FALSE]],
      [task |-> "query", params |-> [sql |-> SqlInsert, allowWrite |-> TRUE]] }
        \cup { [task |-> "list-tables", params |-> [includeRowCounts |-> b]] : b \in BOOLEAN }

\* what the model runtime passes to run_query, after the schema's defaults
ToolInputs ==
    { [task |-> "query", params |-> [sql |-> SqlSelect, allowWrite |-> FALSE]] }
        \cup { [task |-> "query", params |-> [sql |-> SqlInsert, allowWrite |-> b]] :
                 b \in BOOLEAN }

ConfigInputs ==
    { [allowWrite |-> FALSE], [mysqlDb |-> "other"] }

EnvInputs ==
    { NoKeys,
      [MYSQL_ALLOW_WRITE |-> "true", MYSQL_DB |-> "testdb", MYSQL_ROW_LIMIT |-> <<"1">>] }

(***************************************************************************)
(* State.                                                                  *)
(*   _db      the memoized handle, 0 for null                              *)
(*   _config  the stored overrides                                         *)
(*   env      Bun.env                                                      *)
(*   handles  what the driver knows of each handle: its state and the      *)
(*            options createConnection was given                           *)
(*   calls    each call's position and locals                              *)
(*   store    the data behind the connection: the rows of table users and  *)
(*            the tables of the catalog                                    *)
(*   probe    the last application of one of the module's pure functions:  *)
(*            its name, its arguments and what it returned                 *)
(***************************************************************************)
\* a handle is free (not created, or ended, or never connected), connecting,
\* open, closing (end() has been called and has not resolved), or lost (the
\* session behind it is gone and the module still holds it)
NoHandle == [st |-> "free", opts |-> NoKeys]

NoCall ==
    [ via |-> "none", pc |-> "idle", input |-> NoKeys, config |-> NoKeys,
      db |-> 0, q |-> 0, stmt |-> <<>>, sent |-> 0, conns |-> 0, result |-> NoKeys,
      before |-> NoKeys, kids |-> <<>> ]


Init ==
    /\ _db = 0
    /\ _config = NoKeys
    /\ env \in EnvInputs
    /\ handles = [h \in Handles |-> NoHandle]
    /\ calls = [c \in Calls |-> NoCall]
    /\ store = [rows |-> SeedRows, tables |-> Tables]
    /\ probe = NoKeys

\* a database with one base table, or with two
InitCatalog ==
    /\ _db = 0
    /\ _config = NoKeys
    /\ env \in EnvInputs
    /\ handles = [h \in Handles |-> NoHandle]
    /\ calls = [c \in Calls |-> NoCall]
    /\ store \in {[rows |-> SeedRows, tables |-> t] : t \in {Tables, TablesTwoBase}}
    /\ probe = NoKeys

\* a new call takes the first slot that is not in use
CanBegin(c) ==
    /\ calls[c].via = "none"
    /\ \A b \in Calls : b < c => calls[b].via # "none"

\* a handle is live from the moment createConnection resolves until end() has resolved
Live(h) == handles[h].st \in {"open", "closing"}

(***************************************************************************)
(* The dispatcher's envelopes and the tool wrappers' payloads.             *)
(***************************************************************************)
SuccessEnvelope(data, d) == [success |-> TRUE, data |-> data, duration_ms |-> d]

\* the mutant of ErrorEnvelope: the catch branch also carries a data field
ErrorEnvelopeWithData(msg, d) ==
    [success |-> FALSE, data |-> NoKeys, error |-> msg, duration_ms |-> d]

ErrorEnvelope(msg, d) == [success |-> FALSE, error |-> msg, duration_ms |-> d]

\* JSON.stringify(result); test_connection adds status: "connected"
ToolPayload(input, data) ==
    IF input.task = "test-connection"
    THEN [status |-> "connected", text |-> data]
    ELSE [text |-> data]

\* the mutant of ToolErrorPayload: the catch branch returns the bare message
ToolErrorPayloadBare(input, msg) == [text |-> msg]

\* JSON.stringify({status: "error", message}); get_schema adds the table
ToolErrorPayload(input, msg) ==
    IF input.task = "get-schema"
    THEN [status |-> "error", message |-> msg, table |-> input.params.tableName]
    ELSE [status |-> "error", message |-> msg]

\* the call's record once it has returned ok/val after d time units
Result(rec, ok, val, d) ==
    [ rec EXCEPT
        !.pc = "done",
        !.db = 0,
        !.before = NoKeys,
        !.q = 0,
        !.stmt = <<>>,
        !.kids = <<>>,
        !.result =
            IF rec.via = "tool"
            THEN IF ok THEN ToolPayload(rec.input, val) ELSE ToolErrorPayload(rec.input, val)
            ELSE IF ok THEN SuccessEnvelope(val, d) ELSE ErrorEnvelope(val, d) ]

\* the call returns: calls' is fixed, the elapsed time is whatever the clock gives
Settle(c, rec, ok, val) ==
    \E d \in 0..MaxElapsed : calls' = [calls EXCEPT ![c] = Result(rec, ok, val, d)]

(***************************************************************************)
(* runQueryImpl's permission check.                                        *)
(***************************************************************************)
\* function runQueryImpl(sql, allowWrite = false)
AllowWriteArg(params) == Has(params, "allowWrite") /\ params.allowWrite

\* the mutant of WriteGate: the configuration's flag is not consulted
WriteGateCallerOnly(sql, allowWrite, config) ==
    IF isWriteQuery(sql) /\ ~allowWrite THEN "caller" ELSE "pass"

WriteGate(sql, allowWrite, config) ==
    IF isWriteQuery(sql)
    THEN IF ~allowWrite THEN "caller"
         ELSE IF ~config.allowWrite THEN "config"
         ELSE "pass"
    ELSE "pass"

(***************************************************************************)
(* The statements of the catalog tasks.                                    *)
(***************************************************************************)
SqlVersion == <<"SELECT", " ", "VERSION()">>
SqlColumns == <<"SELECT", " ", "COLUMNS">>
SqlStatistics == <<"SELECT", " ", "STATISTICS">>
SqlKeyColumnUsage == <<"SELECT", " ", "KEY_COLUMN_USAGE">>

SqlTables == <<"SELECT", " ", "TABLES">>
SqlBaseTables == <<"SELECT", " ", "BASE_TABLES">>
SqlCount == <<"SELECT", " ", "COUNT(*)">>

\* the q-th statement of a catalog task
CatalogStatement(task, q) ==
    IF task = "test-connection" THEN SqlVersion
    ELSE IF task = "list-tables" THEN SqlTables
    ELSE IF task = "get-all-schemas" THEN SqlBaseTables
    ELSE IF q = 1 THEN SqlColumns
    ELSE IF q = 2 THEN SqlStatistics
    ELSE SqlKeyColumnUsage

Statements(task) == IF task = "get-schema" THEN 3 ELSE 1

(***************************************************************************)
(* getConnection and the executors.                                        *)
(***************************************************************************)
KnownTasks ==
    {"test-connection", "list-tables", "get-schema", "get-all-schemas", "query", "chat"}

\* the handle createConnection hands out next
Unused(h) ==
    /\ handles[h].st = "free"
    /\ \A c \in Calls :
         /\ calls[c].db # h
         /\ \A k \in DOMAIN calls[c].kids : calls[c].kids[k].db # h

FreshHandle(h) == Unused(h) /\ \A g \in Handles : g < h => ~Unused(g)

\* the mutant of GetConnection: createConnection is called whether or not a
\* handle is memoized
GetConnectionAlwaysCreates(c, rec) ==
    \E h \in Handles :
        /\ FreshHandle(h)
        /\ handles' = [handles EXCEPT ![h] = [st |-> "connecting", opts |-> getConnectionConfig]]
        /\ calls' = [calls EXCEPT ![c] = [rec EXCEPT !.pc = "connecting", !.db = h]]

\* getConnection() up to its await: with no memoized handle createConnection
\* is called with the options resolved now; otherwise _db is the result
GetConnection(c, rec) ==
    IF _db = 0
    THEN \E h \in Handles :
           /\ FreshHandle(h)
           /\ handles' = [handles EXCEPT ![h] = [st |-> "connecting", opts |-> getConnectionConfig]]
           /\ calls' = [calls EXCEPT ![c] =
                           [rec EXCEPT !.pc = "connecting", !.db = h, !.conns = @ + 1]]
    ELSE /\ handles' = handles
         /\ calls' = [calls EXCEPT ![c] = [rec EXCEPT !.pc = "have_db", !.db = _db]]

\* runQueryImpl's const config = getConfig(), cut to the two fields it reads
QueryConfig == [allowWrite |-> getConfig.allowWrite, rowLimit |-> getConfig.rowLimit]

\* executeMySQLTask's switch, and a tool's execute, up to the first await
Switch(c, rec) ==
    /\ LET input == rec.input
       IN  IF input.task \notin KnownTasks
           THEN Settle(c, rec, FALSE, ErrUnknownTask) /\ handles' = handles
           ELSE IF input.task \in {"get-schema", "query", "chat"} /\ ~Has(input, "params")
           THEN Settle(c, rec, FALSE, ErrTypeError) /\ handles' = handles
           ELSE IF input.task = "chat"
           THEN /\ calls' = [calls EXCEPT ![c] = [rec EXCEPT !.pc = "chat_run"]]
                /\ handles' = handles
           ELSE IF input.task = "query"
           THEN GetConnection(c, [rec EXCEPT !.config = QueryConfig])
           ELSE GetConnection(c, rec)
    /\ UNCHANGED <<_db, _config, env, store, probe>>

(***************************************************************************)
(* Entry points.                                                           *)
(***************************************************************************)
\* configureAgent up to its await: the overrides are merged, and end() is
\* called on the memoized handle if there is one.  before remembers _config
\* and _db as the call found them, while the call waits for end()
ConfigureAgentBody(c, rec, config) ==
    /\ _config' = Spread(_config, config)
    /\ IF _db # 0
       THEN /\ handles' = [handles EXCEPT ![_db].st = IF @ = "open" THEN "closing" ELSE @]
            /\ calls' = [calls EXCEPT ![c] =
                            [rec EXCEPT !.pc = "end_wait", !.db = _db,
                                        !.before = IF rec.via = "configure"
                                                   THEN [config |-> _config, db |-> _db]
                                                   ELSE NoKeys]]
       ELSE /\ handles' = handles
            /\ calls' = [calls EXCEPT ![c] =
                            [rec EXCEPT !.pc = IF rec.via = "task" THEN "dispatch" ELSE "done"]]
    /\ UNCHANGED <<_db, env, store, probe>>

\* executeMySQLTask(taskInput) and executeMySQLTask(taskInput, config)
ExecuteMySQLTask(c) ==
    /\ CanBegin(c)
    /\ \E input \in (IF c = 1 THEN TaskInputs ELSE OverlapInputs) :
         LET rec == [NoCall EXCEPT !.via = "task", !.input = input]
         IN  \/ Switch(c, rec)
             \/ c = 1 /\ \E config \in ConfigInputs : ConfigureAgentBody(c, rec, config)

\* executeQuery(sql, options): configureAgent(options.config) if given, then
\* the query task with options.allowWrite
ExecuteQuery(c) ==
    /\ CanBegin(c)
    /\ c = 1
    /\ \E params \in QueryParamsInputs :
         LET rec == [NoCall EXCEPT !.via = "task",
                                   !.input = [task |-> "query", params |-> params]]
         IN  \/ Switch(c, rec)
             \/ \E config \in ConfigInputs : ConfigureAgentBody(c, rec, config)

\* runMySQLAgent(prompt, config)
RunMySQLAgent(c) ==
    /\ CanBegin(c)
    /\ c = 1
    /\ LET rec == [NoCall EXCEPT !.via = "task",
                                 !.input = [task |-> "chat", params |-> [message |-> "hi"]]]
       IN  \/ Switch(c, rec)
           \/ \E config \in ConfigInputs : ConfigureAgentBody(c, rec, config)

\* configureAgent(config)
ConfigureAgent(c) ==
    /\ CanBegin(c)
    /\ \E config \in ConfigInputs :
         ConfigureAgentBody(c, [NoCall EXCEPT !.via = "configure"], config)

\* closeConnection() up to its await
CloseConnection(c) ==
    /\ CanBegin(c)
    /\ LET rec == [NoCall EXCEPT !.via = "close"]
       IN  IF _db # 0
           THEN /\ handles' = [handles EXCEPT ![_db].st = IF @ = "open" THEN "closing" ELSE @]
                /\ calls' = [calls EXCEPT ![c] = [rec EXCEPT !.pc = "end_wait", !.db = _db]]
           ELSE /\ handles' = handles
                /\ calls' = [calls EXCEPT ![c] = [rec EXCEPT !.pc = "done"]]
    /\ UNCHANGED <<_db, _config, env, store, probe>>

\* the mutant of EndResolve: end() resolves and _db keeps the ended handle
EndResolveKeepsDb(c) ==
    /\ calls[c].pc = "end_wait"
    /\ handles' = [handles EXCEPT ![calls[c].db] = NoHandle]
    /\ calls' = [calls EXCEPT ![c] =
                    [calls[c] EXCEPT
                        !.pc = IF calls[c].via = "task" THEN "dispatch" ELSE "done",
                        !.db = 0,
                        !.before = NoKeys]]
    /\ UNCHANGED <<_db, _config, env, store, probe>>

\* await _db.end() resolves; then _db = null.  A closeConnection call that has
\* returned keeps in db the handle it ended, until the caller takes the result
EndResolve(c) ==
    /\ calls[c].pc = "end_wait"
    /\ handles' = [handles EXCEPT ![calls[c].db] = NoHandle]
    /\ _db' = 0
    /\ calls' = [calls EXCEPT ![c] =
                    [calls[c] EXCEPT
                        !.pc = IF calls[c].via = "task" THEN "dispatch" ELSE "done",
                        !.db = IF calls[c].via = "close" THEN @ ELSE 0,
                        !.before = NoKeys]]
    /\ UNCHANGED <<_config, env, store, probe>>

\* another call has called end() on the handle and still waits for it
EndPending(c, h) ==
    \E b \in Calls : b # c /\ calls[b].pc = "end_wait" /\ calls[b].db = h

\* await _db.end() rejects: the connection was not closed, and the caller of
\* closeConnection, configureAgent, executeMySQLTask or executeQuery gets the
\* rejection; _db = null is not reached
EndReject(c) ==
    /\ calls[c].pc = "end_wait"
    /\ handles' = [handles EXCEPT ![calls[c].db].st =
                      IF @ = "closing" /\ ~EndPending(c, calls[c].db) THEN "open" ELSE @]
    /\ calls' = [calls EXCEPT ![c] = [calls[c] EXCEPT !.pc = "rejected", !.db = 0]]
    /\ UNCHANGED <<_db, _config, env, store, probe>>

\* a tool of the agent, invoked by the model runtime while a chat task runs
ToolCall(c) ==
    /\ CanBegin(c)
    /\ \E p \in Calls : calls[p].pc = "chat_run"
    /\ \E input \in ToolInputs :
         Switch(c, [NoCall EXCEPT !.via = "tool", !.input = input])

\* any of the five tools, invoked by the model runtime while a chat task runs
AnyToolCall(c) ==
    /\ CanBegin(c)
    /\ \E p \in Calls : calls[p].pc = "chat_run"
    /\ \E input \in AllToolInputs :
         Switch(c, [NoCall EXCEPT !.via = "tool", !.input = input])

\* executeMySQLTask goes on after await configureAgent(config)
Dispatch(c) == calls[c].pc = "dispatch" /\ Switch(c, calls[c])

\* createConnection resolves: _db = handle; return _db
ConnectOk(c) ==
    /\ calls[c].pc = "connecting"
    /\ handles' = [handles EXCEPT ![calls[c].db].st = "open"]
    /\ _db' = calls[c].db
    /\ calls' = [calls EXCEPT ![c].pc = "connected"]
    /\ UNCHANGED <<_config, env, store, probe>>

\* createConnection rejects
ConnectFail(c) ==
    /\ calls[c].pc = "connecting"
    /\ handles' = [handles EXCEPT ![calls[c].db] = NoHandle]
    /\ Settle(c, calls[c], FALSE, ErrConnection)
    /\ UNCHANGED <<_db, _config, env, store, probe>>

\* db.execute(stmt) is called: a handle whose end() has been called refuses it
Execute(c, rec, stmt, q) ==
    IF handles[rec.db].st = "open"
    THEN calls' = [calls EXCEPT ![c] =
                      [rec EXCEPT !.pc = "executing", !.stmt = stmt, !.q = q, !.sent = @ + 1]]
    ELSE Settle(c, rec, FALSE, ErrClosedState)

\* the executor resumes with its handle, up to its first db.execute
Resume(c) ==
    /\ calls[c].pc \in {"have_db", "connected"}
    /\ LET rec == calls[c]
           input == rec.input
       IN  IF input.task = "query"
           THEN IF ~Has(input.params, "sql")
                THEN Settle(c, rec, FALSE, ErrTypeError)
                ELSE LET gate == WriteGate(input.params.sql, AllowWriteArg(input.params), rec.config)
                     IN  IF gate = "caller" THEN Settle(c, rec, FALSE, ErrCallerGate)
                         ELSE IF gate = "config" THEN Settle(c, rec, FALSE, ErrConfigGate)
                         ELSE Execute(c, rec, enforceLimit(input.params.sql, rec.config.rowLimit), 1)
           ELSE IF input.task = "get-schema" /\ ~Has(input.params, "tableName")
           THEN Settle(c, rec, FALSE, ErrBindUndefined)
           ELSE Execute(c, rec, CatalogStatement(input.task, 1), 1)
    /\ UNCHANGED <<_db, _config, env, handles, store, probe>>

\* the rows a catalog query WHERE TABLE_NAME = ? returns: those of the
\* table's columns, indexes or foreign keys, and none for a name the catalog
\* does not hold
CatalogRows(stmt, tableName, st) ==
    LET known == \E i \in 1..Len(st.tables) : st.tables[i].table_name = tableName
        base == \E i \in 1..Len(st.tables) :
                    /\ st.tables[i].table_name = tableName
                    /\ st.tables[i].table_type = "BASE TABLE"
    IN  IF stmt = SqlColumns /\ known THEN <<"id">>
        ELSE IF stmt = SqlStatistics /\ base THEN <<"PRIMARY">>
        ELSE <<>>

\* SELECT COUNT(*) FROM `t`: the stored rows of users; the other tables are empty
TableRows(tableName, st) == IF tableName = "users" THEN st.rows ELSE 0

\* what getSchemaImpl(tableName) returns: the rows of its three statements
Schema(tableName, st) ==
    [ table |-> tableName,
      columns |-> CatalogRows(SqlColumns, tableName, st),
      indexes |-> CatalogRows(SqlStatistics, tableName, st),
      foreign_keys |-> CatalogRows(SqlKeyColumnUsage, tableName, st) ]

\* what the executor returns after its last statement
TaskData(rec, st) ==
    IF rec.input.task = "query"
    THEN [row_count |-> RowCount(rec.stmt, st)]
    ELSE IF rec.input.task = "list-tables"
    THEN [tables |-> st.tables]
    ELSE IF rec.input.task = "get-schema"
    THEN Schema(rec.input.params.tableName, st)
    ELSE [task |-> rec.input.task]

\* listTablesImpl with includeRowCounts and getAllSchemasImpl go on, after
\* their enumeration, with one promise per table under Promise.all
FansOut(input) ==
    \/ input.task = "get-all-schemas"
    \/ /\ input.task = "list-tables"
       /\ Has(input, "params")
       /\ Has(input.params, "includeRowCounts")
       /\ input.params.includeRowCounts

\* the mutant of CountsRows: every table is counted, a view too
CountsRowsOfAny(t) == TRUE

\* listTablesImpl's t.table_type === "BASE TABLE"
CountsRows(t) == t.table_type = "BASE TABLE"

\* the rows the enumeration of getAllSchemasImpl returns
BaseTables(tables) == SelectSeq(tables, LAMBDA t : t.table_type = "BASE TABLE")

\* the statements of one promise: a COUNT(*), or the three of getSchemaImpl
KidStatements(task) == IF task = "list-tables" THEN 1 ELSE 3

KidStatement(task, q) ==
    IF task = "list-tables" THEN SqlCount ELSE CatalogStatement("get-schema", q)

\* the handles createConnection hands out to n calls made in one step
RECURSIVE FreshHandles(_, _)
FreshHandles(n, free) ==
    IF n = 0
    THEN <<>>
    ELSE LET h == CHOOSE x \in free : \A y \in free : x <= y
         IN  <<h>> \o FreshHandles(n - 1, free \ {h})

\* the mutant of FanData: the promises' results in the opposite order
FanDataReversed(rec, kids) ==
    LET outs == [i \in 1..Len(kids) |-> kids[Len(kids) + 1 - i].out]
    IN  IF rec.input.task = "list-tables" THEN [tables |-> outs] ELSE [schemas |-> outs]

\* what Promise.all resolves to: the promises' results in the order of the
\* rows they were made from, whatever order they were fulfilled in
FanData(rec, kids) ==
    LET outs == [i \in 1..Len(kids) |-> kids[i].out]
    IN  IF rec.input.task = "list-tables" THEN [tables |-> outs] ELSE [schemas |-> outs]

\* the promises are settled as a whole: a refused statement rejects
\* Promise.all, and so the executor; with every promise fulfilled the
\* executor returns; otherwise it waits
Gather(c, rec, kids) ==
    IF \E i \in DOMAIN kids : kids[i].st = "refused"
    THEN Settle(c, rec, FALSE, ErrClosedState)
    ELSE IF \A i \in DOMAIN kids : kids[i].st = "done"
    THEN Settle(c, rec, TRUE, FanData(rec, kids))
    ELSE calls' = [calls EXCEPT ![c] =
                      [rec EXCEPT !.pc = "fanout", !.kids = kids, !.stmt = <<>>, !.q = 0]]

\* db.execute(stmt) by the promise made for arg (a row of the listing, or a
\* table name) on handle h
KidExecute(h, q, arg) ==
    [ st |-> IF handles[h].st = "open" THEN "executing" ELSE "refused",
      db |-> h, q |-> q, arg |-> arg, out |-> NoKeys ]

\* the tables.map callbacks of listTablesImpl, and the getSchemaImpl calls of
\* getAllSchemasImpl up to their first await: each getSchemaImpl runs
\* getConnection, which tests _db in this same step
FanOut(c, rec) ==
    LET task == rec.input.task
        rows == IF task = "list-tables" THEN store.tables ELSE BaseTables(store.tables)
        n == Len(rows)
        creates == task = "get-all-schemas" /\ _db = 0 /\ n > 0
        unused == {h \in Handles : Unused(h)}
        fresh == IF creates /\ Cardinality(unused) >= n THEN FreshHandles(n, unused) ELSE <<>>
        kid(i) ==
            IF task = "list-tables"
            THEN IF CountsRows(rows[i])
                 THEN KidExecute(rec.db, 1, rows[i])
                 ELSE [st |-> "done", db |-> 0, q |-> 0, arg |-> rows[i], out |-> rows[i]]
            ELSE IF creates
            THEN [ st |-> "connecting", db |-> fresh[i], q |-> 0,
                   arg |-> rows[i].table_name, out |-> NoKeys ]
            ELSE KidExecute(_db, 1, rows[i].table_name)
        kids == [i \in 1..n |-> kid(i)]
        sends == Cardinality({i \in 1..n : kids[i].st = "executing"})
    IN  /\ creates => Cardinality(unused) >= n
        /\ handles' =
             IF creates
             THEN [h \in Handles |->
                     IF \E i \in 1..n : fresh[i] = h
                     THEN [st |-> "connecting", opts |-> getConnectionConfig]
                     ELSE handles[h]]
             ELSE handles
        /\ Gather(c, [rec EXCEPT !.sent = @ + sends,
                                  !.conns = IF creates THEN @ + n ELSE @], kids)

\* db.execute resolves: the server has run the statement; the executor sends
\* its next statement or returns
ExecOk(c) ==
    /\ calls[c].pc = "executing"
    /\ Live(calls[c].db)
    /\ ServerAccepts(calls[c].stmt, store)
    /\ store' = ServerApply(calls[c].stmt, store)
    /\ LET rec == calls[c]
       IN  IF rec.q < Statements(rec.input.task)
           THEN /\ Execute(c, rec, CatalogStatement(rec.input.task, rec.q + 1), rec.q + 1)
                /\ handles' = handles
           ELSE IF FansOut(rec.input)
           THEN FanOut(c, rec)
           ELSE /\ Settle(c, rec, TRUE, TaskData(rec, store))
                /\ handles' = handles
    /\ UNCHANGED <<_db, _config, env, probe>>

\* db.execute rejects
ExecFail(c) ==
    /\ calls[c].pc = "executing"
    /\ Settle(c, calls[c], FALSE, ErrDriver)
    /\ UNCHANGED <<_db, _config, env, handles, store, probe>>

\* db.execute rejects because the session is gone: the handle is dead from
\* now on; nothing in the module touches _db
ExecFailConnectionLost(c) ==
    /\ calls[c].pc = "executing"
    /\ handles[calls[c].db].st = "open"
    /\ handles' = [handles EXCEPT ![calls[c].db] =
                      IF _db = calls[c].db THEN [st |-> "lost", opts |-> NoKeys] ELSE NoHandle]
    /\ Settle(c, calls[c], FALSE, ErrConnectionLost)
    /\ UNCHANGED <<_db, _config, env, store, probe>>

\* a promise's db.execute resolves: the promise sends its next statement, or
\* is fulfilled (a COUNT(*) with the number of rows)
KidExecOk(c, k) ==
    /\ calls[c].pc = "fanout"
    /\ k \in DOMAIN calls[c].kids
    /\ calls[c].kids[k].st = "executing"
    /\ Live(calls[c].kids[k].db)
    /\ LET rec == calls[c]
           kid == rec.kids[k]
           task == rec.input.task
           next == IF kid.q < KidStatements(task)
                   THEN KidExecute(kid.db, kid.q + 1, kid.arg)
                   ELSE [ st |-> "done", db |-> 0, q |-> 0, arg |-> kid.arg,
                          out |-> IF task = "list-tables"
                                  THEN Spread(kid.arg,
                                              [exact_row_count |->
                                                 TableRows(kid.arg.table_name, store)])
                                  ELSE Schema(kid.arg, store) ]
       IN  Gather(c, [rec EXCEPT !.sent = IF next.st = "executing" THEN @ + 1 ELSE @],
                  [rec.kids EXCEPT ![k] = next])
    /\ UNCHANGED <<_db, _config, env, handles, store, probe>>

\* a promise's db.execute rejects: Promise.all rejects, and so the executor
KidExecFail(c, k) ==
    /\ calls[c].pc = "fanout"
    /\ k \in DOMAIN calls[c].kids
    /\ calls[c].kids[k].st = "executing"
    /\ Settle(c, calls[c], FALSE, ErrDriver)
    /\ UNCHANGED <<_db, _config, env, handles, store, probe>>

\* a getSchemaImpl's createConnection resolves: _db = handle, and the first
\* statement is sent on it
KidConnectOk(c, k) ==
    /\ calls[c].pc = "fanout"
    /\ k \in DOMAIN calls[c].kids
    /\ calls[c].kids[k].st = "connecting"
    /\ LET rec == calls[c]
           h == rec.kids[k].db
       IN  /\ handles' = [handles EXCEPT ![h].st = "open"]
           /\ _db' = h
           /\ calls' = [calls EXCEPT ![c] =
                           [rec EXCEPT !.sent = @ + 1,
                                       !.kids[k] = [ st |-> "executing", db |-> h, q |-> 1,
                                                     arg |-> rec.kids[k].arg, out |-> NoKeys ]]]
    /\ UNCHANGED <<_config, env, store, probe>>

\* a getSchemaImpl's createConnection rejects
KidConnectFail(c, k) ==
    /\ calls[c].pc = "fanout"
    /\ k \in DOMAIN calls[c].kids
    /\ calls[c].kids[k].st = "connecting"
    /\ handles' = [handles EXCEPT ![calls[c].kids[k].db] = NoHandle]
    /\ Settle(c, calls[c], FALSE, ErrConnection)
    /\ UNCHANGED <<_db, _config, env, store, probe>>

ToolInFlight == \E t \in Calls : calls[t].via = "tool" /\ calls[t].pc # "done"

\* run(agent, message) resolves with the final output
ChatResolve(c) ==
    /\ calls[c].pc = "chat_run"
    /\ ~ToolInFlight
    /\ Settle(c, calls[c], TRUE, [finalOutput |-> "text"])
    /\ UNCHANGED <<_db, _config, env, handles, store, probe>>

\* run(agent, message) rejects
ChatReject(c) ==
    /\ calls[c].pc = "chat_run"
    /\ ~ToolInFlight
    /\ Settle(c, calls[c], FALSE, ErrAgentRun)
    /\ UNCHANGED <<_db, _config, env, handles, store, probe>>

\* the caller takes the result (or the rejection) of a finished call
Return(c) ==
    /\ calls[c].pc \in {"done", "rejected"}
    /\ calls' = [calls EXCEPT ![c] = NoCall]
    /\ UNCHANGED <<_db, _config, env, handles, store, probe>>

Next ==
    \E c \in Calls :
        \/ ExecuteMySQLTask(c)
        \/ ExecuteQuery(c)
        \/ RunMySQLAgent(c)
        \/ ConfigureAgent(c)
        \/ CloseConnection(c)
        \/ ToolCall(c)
        \/ EndResolve(c)
        \/ EndReject(c)
        \/ Dispatch(c)
        \/ ConnectOk(c)
        \/ ConnectFail(c)
        \/ Resume(c)
        \/ ExecOk(c)
        \/ ExecFail(c)
        \/ ExecFailConnectionLost(c)
        \/ ChatResolve(c)
        \/ ChatReject(c)
        \/ Return(c)

Spec == Init /\ [][Next]_vars

(***************************************************************************)
(* The pure functions, applied to inputs drawn from bounded sets.          *)
(***************************************************************************)
\* statements: blanks, a first word, a body, a LIMIT clause, an end
SqlStrings ==
    { lead \o <<word>> \o body \o lim \o tail :
        lead \in {<<>>, <<" ">>, <<"\n", "\t">>},
        word \in {"SELECT", "select", "SELECTED", "SHOW", "describe", "INSERT", "Insert",
                  "inserted", "update", "delete", "DROP", "CREATE", "ALTER", "TRUNCATE",
                  "REPLACE", "/*c*/", "x"},
        body \in {<<>>, <<" ", "x">>},
        lim \in {<<>>, <<" ", "LIMIT", " ", "2">>, <<" ", "limit", " ", "2">>,
                 <<"\n", "LIMIT", " ", "2">>, <<" ", "LIMIT">>},
        tail \in {<<>>, <<" ">>} }
        \cup {<<>>, <<" ">>}

Limits == {Num(1), Num(1000), NaN}

\* Bun.env, well-formed and malformed
PureEnvInputs ==
    { NoKeys,
      [MYSQL_PASS |-> "secret", MYSQL_ALLOW_WRITE |-> "true", MYSQL_DB |-> "testdb",
       MYSQL_PORT |-> <<"3", "3", "0", "7">>, MYSQL_ROW_LIMIT |-> <<"5">>,
       AGENT_MAX_TURNS |-> <<"3">>],
      [MYSQL_ALLOW_WRITE |-> "TRUE", MYSQL_ROW_LIMIT |-> <<"a", "b", "c">>],
      [MYSQL_PORT |-> <<"1", "2", "x">>, AGENT_MAX_TURNS |-> <<" ", "-", "4">>],
      [MYSQL_URL |-> "mysql://h/db", MYSQL_ROW_LIMIT |-> <<>>] }

\* _config, as configureAgent calls can leave it
PureConfigInputs ==
    { NoKeys,
      [allowWrite |-> FALSE],
      [allowWrite |-> TRUE, mysqlDb |-> "other"],
      [mysqlPass |-> ""],
      [rowLimit |-> Num(0)],
      [rowLimit |-> Num(7), mysqlPort |-> Num(3308), mysqlUrl |-> "mysql://o/db"],
      [mysqlPass |-> "pw", maxTurns |-> Num(0)] }

\* one function is applied once in a behaviour
InitPure ==
    /\ _db = 0
    /\ _config \in PureConfigInputs
    /\ env \in PureEnvInputs
    /\ handles = [h \in Handles |-> NoHandle]
    /\ calls = [c \in Calls |-> NoCall]
    /\ store = [rows |-> SeedRows, tables |-> Tables]
    /\ probe = NoKeys

ApplyIsWriteQuery ==
    /\ probe = NoKeys
    /\ \E sql \in SqlStrings :
         probe' = [fn |-> "isWriteQuery", sql |-> sql, out |-> isWriteQuery(sql)]
    /\ UNCHANGED <<_db, _config, env, handles, calls, store>>

ApplyEnforceLimit ==
    /\ probe = NoKeys
    /\ \E sql \in SqlStrings, limit \in Limits :
         probe' = [fn |-> "enforceLimit", sql |-> sql, limit |-> limit,
                   out |-> enforceLimit(sql, limit)]
    /\ UNCHANGED <<_db, _config, env, handles, calls, store>>

ApplyGetConfig ==
    /\ probe = NoKeys
    /\ probe' = [fn |-> "getConfig", out |-> getConfig]
    /\ UNCHANGED <<_db, _config, env, handles, calls, store>>

\* runQueryImpl's const finalSql = enforceLimit(sql, config.rowLimit)
ApplyFinalSql ==
    /\ probe = NoKeys
    /\ \E sql \in SqlStrings :
         probe' = [fn |-> "finalSql", sql |-> sql, out |-> enforceLimit(sql, getConfig.rowLimit)]
    /\ UNCHANGED <<_db, _config, env, handles, calls, store>>

\* enforceLimit applied to its own result
ApplyEnforceLimitTwice ==
    /\ probe = NoKeys
    /\ \E sql \in SqlStrings, limit \in Limits :
         probe' = [fn |-> "enforceLimitTwice", sql |-> sql, limit |-> limit,
                   once |-> enforceLimit(sql, limit),
                   out |-> enforceLimit(enforceLimit(sql, limit), limit)]
    /\ UNCHANGED <<_db, _config, env, handles, calls, store>>

ApplyGetConnectionConfig ==
    /\ probe = NoKeys
    /\ probe' = [fn |-> "getConnectionConfig", out |-> getConnectionConfig]
    /\ UNCHANGED <<_db, _config, env, handles, calls, store>>

NextPure ==
    \/ ApplyIsWriteQuery
    \/ ApplyEnforceLimit
    \/ ApplyGetConfig
    \/ ApplyFinalSql
    \/ ApplyGetConnectionConfig
    \/ ApplyEnforceLimitTwice

SpecPure == InitPure /\ [][NextPure]_vars

(***************************************************************************)
(* The agent: chat tasks one after the other, the model runtime calling    *)
(* any of the five tools while one runs.                                   *)
(***************************************************************************)
NextAgent ==
    \E c \in Calls :
        \/ RunMySQLAgent(c)
        \/ AnyToolCall(c)
        \/ EndResolve(c)
        \/ EndReject(c)
        \/ Dispatch(c)
        \/ ConnectOk(c)
        \/ ConnectFail(c)
        \/ Resume(c)
        \/ ExecOk(c)
        \/ ExecFail(c)
        \/ ExecFailConnectionLost(c)
        \/ \E k \in 1..MaxTables : KidExecOk(c, k)
        \/ \E k \in 1..MaxTables : KidExecFail(c, k)
        \/ ChatResolve(c)
        \/ ChatReject(c)
        \/ Return(c)

SpecAgent == Init /\ [][NextAgent]_vars

(***************************************************************************)
(* The catalog tasks, with closeConnection, configureAgent and a second    *)
(* task call interleaved.                                                  *)
(***************************************************************************)
\* executeMySQLTask(taskInput) with a catalog task
ExecuteCatalogTask(c) ==
    /\ CanBegin(c)
    /\ \E input \in (IF c = 1 THEN CatalogInputs ELSE OverlapInputs) :
         Switch(c, [NoCall EXCEPT !.via = "task", !.input = input])

NextCatalog ==
    \E c \in Calls :
        \/ ExecuteCatalogTask(c)
        \/ ConfigureAgent(c)
        \/ CloseConnection(c)
        \/ EndResolve(c)
        \/ EndReject(c)
        \/ ConnectOk(c)
        \/ ConnectFail(c)
        \/ Resume(c)
        \/ ExecOk(c)
        \/ ExecFail(c)
        \/ \E k \in 1..MaxTables : KidExecOk(c, k)
        \/ \E k \in 1..MaxTables : KidExecFail(c, k)
        \/ \E k \in 1..MaxTables : KidConnectOk(c, k)
        \/ \E k \in 1..MaxTables : KidConnectFail(c, k)
        \/ Return(c)

SpecCatalog == InitCatalog /\ [][NextCatalog]_vars

(***************************************************************************)
(* Properties.                                                             *)
(***************************************************************************)
\* a call that runs runQueryImpl with a statement
IsQuery(rec) ==
    /\ rec.via \in {"task", "tool"}
    /\ rec.input.task = "query"
    /\ Has(rec.input, "params")
    /\ Has(rec.input.params, "sql")

\* the call has returned a failure: an error envelope, or a tool's error payload
Failed(rec) ==
    /\ rec.pc = "done"
    /\ IF rec.via = "tool"
       THEN Has(rec.result, "status") /\ rec.result.status = "error"
       ELSE rec.result.success = FALSE

\* C1: a query call (task or tool) whose SQL is classified write-intent sends
\* a statement only if the caller's allowWrite and the configuration's
\* allowWrite, as the call resolved it, are both true; otherwise it sends
\* nothing and returns a failure
WriteNeedsBothGates ==
    \A c \in Calls :
        LET rec == calls[c]
        IN  (IsQuery(rec) /\ isWriteQuery(rec.input.params.sql)
                /\ rec.pc \in {"executing", "done"})
            => \/ AllowWriteArg(rec.input.params) /\ rec.config.allowWrite
               \/ rec.sent = 0 /\ Failed(rec)

\* a write-classified statement is at the server, sent by a call that had both flags
WriteSentWithBothGates ==
    \E c \in Calls :
        /\ IsQuery(calls[c])
        /\ calls[c].pc = "executing"
        /\ isWriteQuery(calls[c].input.params.sql)
        /\ isWriteQuery(calls[c].stmt)
        /\ AllowWriteArg(calls[c].input.params)
        /\ calls[c].config.allowWrite

\* C2: a query task with write-intent SQL and the caller's allowWrite false
\* or omitted returns success=false with an error whose text contains
\* 'allowWrite', whatever the configuration's flag is
CallerGateErrorNamed ==
    \A c \in Calls :
        LET rec == calls[c]
        IN  (rec.via = "task" /\ rec.pc = "done" /\ IsQuery(rec)
                /\ isWriteQuery(rec.input.params.sql)
                /\ ~AllowWriteArg(rec.input.params))
            => /\ rec.result.success = FALSE
               /\ includes(rec.result.error, <<"allowWrite">>)

\* C3: a query task with write-intent SQL, the caller's allowWrite true and
\* the configuration's allowWrite false returns success=false with the
\* configuration gate's error, which is not the caller gate's error
ConfigGateErrorNamed ==
    \A c \in Calls :
        LET rec == calls[c]
        IN  (rec.via = "task" /\ rec.pc = "done" /\ IsQuery(rec)
                /\ isWriteQuery(rec.input.params.sql)
                /\ AllowWriteArg(rec.input.params)
                /\ ~rec.config.allowWrite)
            => /\ rec.result.success = FALSE
               /\ includes(rec.result.error, <<"MYSQL_ALLOW_WRITE">>)
               /\ rec.result.error # ErrCallerGate

\* C4: while the configuration's allowWrite is false, no query task and no
\* run_query tool call, with any SQL and any caller flag, has a statement
\* executed that modifies data or schema
NoModificationWhileWriteDisabled ==
    \A c \in Calls :
        LET rec == calls[c]
        IN  (IsQuery(rec) /\ rec.pc = "executing" /\ Modifies(rec.stmt))
            => rec.config.allowWrite

\* C5: executeMySQLTask never rejects, with or without a config argument,
\* and the envelope it resolves to has a duration_ms that is not negative
ExecuteMySQLTaskNeverRejects ==
    \A c \in Calls :
        calls[c].via = "task"
        => /\ calls[c].pc # "rejected"
           /\ calls[c].pc = "done"
              => /\ Has(calls[c].result, "duration_ms")
                 /\ calls[c].result.duration_ms >= 0

\* C6: an envelope returned by executeMySQLTask has a data field and no
\* error field when success is true, and an error string and no data field
\* when success is false
ExactlyOneOfDataError ==
    \A c \in Calls :
        (calls[c].via = "task" /\ calls[c].pc = "done")
        => LET r == calls[c].result
           IN  IF r.success
               THEN Has(r, "data") /\ ~Has(r, "error")
               ELSE Has(r, "error") /\ ~Has(r, "data") /\ Len(r.error) > 0

\* one call has returned a success envelope and another an error envelope
BothEnvelopesReturned ==
    \E a, b \in Calls :
        /\ calls[a].via = "task" /\ calls[a].pc = "done" /\ calls[a].result.success
        /\ Has(calls[a].result, "data")
        /\ calls[b].via = "task" /\ calls[b].pc = "done" /\ ~calls[b].result.success
        /\ Has(calls[b].result, "error")

\* C7: at every moment at most one connection handle created by the module
\* is live, under any interleaving of task, closeConnection and
\* configureAgent calls
AtMostOneLiveHandle == Cardinality({h \in Handles : Live(h)}) <= 1

\* C8: after a configureAgent call has completed, a getConnection that
\* returns the memoized handle returns one created from the merged
\* configuration, not an older one
FreshHandleAfterConfigure ==
    \A g, c \in Calls :
        (/\ calls[g].via = "configure" /\ calls[g].pc = "done"
         /\ calls[c].pc = "have_db"
         /\ handles[calls[c].db].st = "open")
        => handles[calls[c].db].opts = getConnectionConfig

\* C9: once a configureAgent call has completed, the handle getConnection
\* memoizes was created from the configuration as it is after that call,
\* under any interleaving with task calls in flight
MemoizedHandleFromCurrentConfig ==
    \A g \in Calls :
        (/\ calls[g].via = "configure" /\ calls[g].pc = "done"
         /\ _db # 0
         /\ handles[_db].st = "open")
        => handles[_db].opts = getConnectionConfig

\* C10: a configureAgent call that fails because end() throws leaves the
\* stored configuration and the memoized handle as it found them
ConfigureAllOrNothing ==
    \A c \in Calls :
        (calls[c].via = "configure" /\ calls[c].pc = "rejected")
        => /\ _config = calls[c].before.config
           /\ _db = calls[c].before.db

\* C11: closeConnection called when no handle is memoized returns at once and
\* changes nothing; called when one is memoized it calls end() on that
\* handle, and when end() has resolved the handle is ended and none is
\* memoized, so that a second call in a row finds nothing to end
CloseConnectionIdempotent ==
    [][\A c \in Calls :
         /\ (calls[c].via = "none" /\ calls'[c].via = "close")
            => IF _db = 0
               THEN /\ calls'[c].pc = "done"
                    /\ UNCHANGED <<_db, _config, handles, store, probe>>
               ELSE /\ calls'[c].pc = "end_wait"
                    /\ calls'[c].db = _db
                    /\ handles'[_db].st \in {"closing", "lost"}
         /\ (calls[c].via = "close" /\ calls[c].pc = "end_wait" /\ calls'[c].pc = "done")
            => /\ _db' = 0
               /\ handles'[calls[c].db].st = "free"
               /\ \A h \in Handles : h # calls[c].db => handles'[h] = handles[h]
      ]_vars

\* two closeConnection calls have returned, one that ended a handle and one
\* that found none; no handle is memoized and none is live
ClosedTwice ==
    /\ \A c \in Calls : calls[c].via = "close" /\ calls[c].pc = "done"
    /\ \E c \in Calls : calls[c].db # 0
    /\ \E c \in Calls : calls[c].db = 0
    /\ _db = 0
    /\ \A h \in Handles : handles[h].st = "free"

\* C12: getConnection creates a connection only when none is memoized, from
\* the options resolved at that moment; otherwise it returns the memoized
\* handle and creates nothing; and the handle a call has created (the first,
\* or the one after closeConnection or configureAgent) is open and memoized
GetConnectionMemoizes ==
    [][\A c \in Calls :
         /\ (calls[c].pc # "connecting" /\ calls'[c].pc = "connecting")
            => /\ _db = 0
               /\ handles[calls'[c].db].st = "free"
               /\ handles'[calls'[c].db] = [st |-> "connecting", opts |-> getConnectionConfig]
               /\ \A h \in Handles : h # calls'[c].db => handles'[h] = handles[h]
         /\ (calls[c].pc # "have_db" /\ calls'[c].pc = "have_db")
            => /\ _db # 0
               /\ calls'[c].db = _db
               /\ handles' = handles
         /\ (calls[c].pc = "connecting" /\ calls'[c].pc = "connected")
            => /\ _db' = calls[c].db
               /\ handles'[calls[c].db].st = "open"
      ]_vars

\* closeConnection has ended the memoized handle, and the task call after it
\* has created another one, which is open and memoized
FreshHandleAfterClose ==
    \E a, b \in Calls :
        /\ calls[a].via = "close" /\ calls[a].pc = "done" /\ calls[a].db # 0
        /\ calls[b].via = "task" /\ calls[b].pc = "connected"
        /\ calls[b].db # calls[a].db
        /\ _db = calls[b].db
        /\ handles[_db].st = "open"
        /\ Cardinality({h \in Handles : Live(h)}) = 1

\* C13: after a task call has failed because the session could not be
\* established or was lost, no later call is handed the failed handle by
\* getConnection
NoFailedHandleReused ==
    \A c \in Calls :
        calls[c].pc = "have_db" => handles[calls[c].db].st # "lost"

\* a get-schema request without tableName, or a query request without sql
MissingParam(input) ==
    \/ /\ input.task = "get-schema"
       /\ ~Has(input, "params") \/ ~Has(input.params, "tableName")
    \/ /\ input.task = "query"
       /\ ~Has(input, "params") \/ ~Has(input.params, "sql")

\* C14: a task request that lacks a required parameter opens no connection,
\* is handed no handle and sends no statement, and returns success=false
MissingParamFailsBeforeDatabase ==
    \A c \in Calls :
        (calls[c].via = "task" /\ calls[c].pc # "end_wait" /\ MissingParam(calls[c].input))
        => /\ calls[c].pc \in {"dispatch", "done", "rejected"}
           /\ calls[c].sent = 0
           /\ calls[c].pc = "done" => calls[c].result.success = FALSE

\* the payload a tool returns when its executor has thrown
IsErrorPayload(rec) ==
    /\ Has(rec.result, "status")
    /\ rec.result.status = "error"
    /\ Has(rec.result, "message")
    /\ Len(rec.result.message) > 0
    /\ rec.input.task = "get-schema" => rec.result.table = rec.input.params.tableName

\* C15: a tool invocation never rejects; what it returns is the serialized
\* result or the error payload {status: 'error', message}, and it is the
\* error payload whenever the executor must have thrown (a write-classified
\* statement without both flags)
ToolNeverThrows ==
    \A c \in Calls :
        calls[c].via = "tool"
        => /\ calls[c].pc # "rejected"
           /\ calls[c].pc = "done"
              => /\ IsErrorPayload(calls[c]) \/ Has(calls[c].result, "text")
                 /\ IsErrorPayload(calls[c]) => ~Has(calls[c].result, "text")
                 /\ (/\ IsQuery(calls[c])
                     /\ isWriteQuery(calls[c].input.params.sql)
                     /\ ~(AllowWriteArg(calls[c].input.params) /\ calls[c].config.allowWrite))
                    => IsErrorPayload(calls[c])

\* a tool other than run_query has returned the error payload of a failed statement
ToolReturnedErrorPayload ==
    \E c \in Calls :
        /\ calls[c].via = "tool" /\ calls[c].pc = "done"
        /\ calls[c].input.task \in {"list-tables", "get-all-schemas"}
        /\ IsErrorPayload(calls[c])
        /\ calls[c].result.message = ErrDriver

\* the first word of a statement, blanks before it skipped
FirstWord(sql) ==
    LET idx == {i \in 1..Len(sql) : sql[i] \notin WhiteSpace}
    IN  IF idx = {} THEN "" ELSE sql[CHOOSE i \in idx : \A j \in idx : i <= j]

Applied(fn) == Has(probe, "fn") /\ probe.fn = fn

\* C16: isWriteQuery(sql) is true if and only if sql, after trimming, begins
\* case-insensitively with INSERT, UPDATE, DELETE, DROP, CREATE, ALTER,
\* TRUNCATE or REPLACE; it is false for a statement that begins with SELECT,
\* SHOW or DESCRIBE
IsWriteQueryIffKeyword ==
    Applied("isWriteQuery")
    => /\ probe.out <=>
            \E kw \in {"INSERT", "UPDATE", "DELETE", "DROP", "CREATE", "ALTER",
                       "TRUNCATE", "REPLACE"} :
                BeginsWith(UpperTok(FirstWord(probe.sql)), kw)
       /\ UpperTok(FirstWord(probe.sql)) \in {"SELECT", "SHOW", "DESCRIBE"} => ~probe.out

\* isWriteQuery has returned true for a statement with blanks before a
\* keyword in mixed case
MixedCaseWriteClassified ==
    /\ Applied("isWriteQuery")
    /\ probe.out
    /\ probe.sql # <<>>
    /\ Head(probe.sql) \in WhiteSpace
    /\ FirstWord(probe.sql) = "Insert"

\* the last four tokens of out are ' LIMIT N'
EndsInLimit(out, limit) ==
    /\ Len(out) >= 4
    /\ SubSeq(out, Len(out) - 3, Len(out)) = <<" ", "LIMIT", " ", NumToString(limit)>>

\* the statement, trimmed and in upper case, holds ' LIMIT '
HasLimitToken(sql) ==
    \E i \in 1..Len(trim(sql)) - 2 :
        /\ trim(sql)[i] = " "
        /\ UpperTok(trim(sql)[i + 1]) = "LIMIT"
        /\ trim(sql)[i + 2] = " "

\* C17: enforceLimit(sql, N) ends in ' LIMIT N' for a statement that begins
\* (trimmed, case-insensitive) with SELECT and holds no ' LIMIT '; it is the
\* input unchanged for a SELECT that holds ' LIMIT ' and for a statement
\* that is not a SELECT
EnforceLimitCases ==
    Applied("enforceLimit")
    => IF BeginsWith(UpperTok(FirstWord(probe.sql)), "SELECT") /\ ~HasLimitToken(probe.sql)
       THEN EndsInLimit(probe.out, probe.limit)
       ELSE probe.out = probe.sql

\* enforceLimit has appended the limit to a lower-case select with no LIMIT
LimitAppended ==
    /\ Applied("enforceLimit")
    /\ FirstWord(probe.sql) = "select"
    /\ ~HasLimitToken(probe.sql)
    /\ probe.limit = Num(1000)
    /\ probe.out # probe.sql
    /\ EndsInLimit(probe.out, Num(1000))

\* C19: whenever an override is set in _config, its value is the value
\* getConfig resolves, for every option and every value (false, 0 and the
\* empty string included), whatever the environment holds
OverrideAlwaysWins ==
    Applied("getConfig")
    => \A k \in DOMAIN _config : probe.out[k] = _config[k]

\* a numeric environment value of digits only
WellFormed(chars) == chars # <<>> /\ \A i \in 1..Len(chars) : chars[i] \in DigitChars

\* C20: with no override, a malformed environment value for port, row limit
\* or max turns resolves to the default (3306, 1000, 10), never to a
\* non-number, and no statement is built with a non-numeric limit
MalformedNumberFallsBack ==
    /\ Applied("getConfig")
       => \A o \in { <<"mysqlPort", "MYSQL_PORT", 3306>>,
                     <<"rowLimit", "MYSQL_ROW_LIMIT", 1000>>,
                     <<"maxTurns", "AGENT_MAX_TURNS", 10>> } :
            (~Has(_config, o[1]) /\ Has(env, o[2]) /\ ~WellFormed(env[o[2]]))
            => probe.out[o[1]] = Num(o[3])
    /\ (Applied("finalSql") /\ ~Has(_config, "rowLimit"))
       => ~includes(probe.out, <<"NaN">>)

\* C18: for a SELECT passed to run-query, by task or by tool, the row_count
\* returned is at most the row limit the call resolved
RowCountWithinLimit ==
    \A c \in Calls :
        LET rec == calls[c]
            data == IF rec.via = "tool" THEN rec.result.text ELSE rec.result.data
        IN  (/\ IsQuery(rec) /\ rec.pc = "done" /\ ~Failed(rec)
             /\ BeginsWith(UpperTok(FirstWord(rec.input.params.sql)), "SELECT")
             /\ ~rec.config.rowLimit.nan)
            => data.row_count <= rec.config.rowLimit.n

\* C21: when the resolved connection URL is not empty the connection options
\* are that URL alone, with no host, port, user, password or database; when
\* it is empty they are exactly the five resolved discrete values
UrlAloneOrFiveDiscrete ==
    Applied("getConnectionConfig")
    => LET config == getConfig
       IN  IF config.mysqlUrl # ""
           THEN /\ DOMAIN probe.out = {"uri"}
                /\ probe.out.uri = config.mysqlUrl
           ELSE /\ DOMAIN probe.out = {"host", "port", "user", "password", "database"}
                /\ probe.out.host = config.mysqlHost
                /\ probe.out.port = config.mysqlPort
                /\ probe.out.user = config.mysqlUser
                /\ probe.out.password = config.mysqlPass
                /\ probe.out.database = config.mysqlDb

\* the options are the URL alone although a port override is set
UrlTookPrecedence ==
    /\ Applied("getConnectionConfig")
    /\ Has(_config, "mysqlUrl") /\ Has(_config, "mysqlPort")
    /\ probe.out = [uri |-> _config.mysqlUrl]
\* the catalog holds a table of this name
TableExists(tableName, st) ==
    \E i \in 1..Len(st.tables) : st.tables[i].table_name = tableName

\* C22: a get-schema task for a table name that is not in the current
\* database returns success=false with an error message; it does not report
\* success
GetSchemaUnknownTableFails ==
    \A c \in Calls :
        LET rec == calls[c]
        IN  (/\ rec.via = "task" /\ rec.pc = "done"
             /\ rec.input.task = "get-schema"
             /\ Has(rec.input, "params") /\ Has(rec.input.params, "tableName")
             /\ ~TableExists(rec.input.params.tableName, store))
            => /\ rec.result.success = FALSE
               /\ Has(rec.result, "error")
               /\ Len(rec.result.error) > 0
\* the statements a request's executor has to send, each counted once
StatementCount(input, st) ==
    LET bases == Len(BaseTables(st.tables))
    IN  CASE input.task = "chat" -> 0
          [] input.task = "get-schema" -> 3
          [] input.task = "get-all-schemas" -> 1 + 3 * bases
          [] input.task = "list-tables" -> IF FansOut(input) THEN 1 + bases ELSE 1
          [] OTHER -> 1

\* within one call no statement is sent a second time
EachStatementSentOnce ==
    \A c \in Calls :
        calls[c].via \in {"task", "tool"}
        => calls[c].sent <= StatementCount(calls[c].input, store)

\* C23: within one executeMySQLTask call at most one connection attempt is
\* made and each statement is submitted to the driver at most once, whether
\* it succeeds or fails
NoAutomaticRetry ==
    \A c \in Calls :
        calls[c].via \in {"task", "tool"}
        => /\ calls[c].conns <= 1
           /\ calls[c].sent <= StatementCount(calls[c].input, store)
\* C24: get-all-schemas makes one get-schema promise per enumerated base
\* table, for that table, and what it returns is the tables' schemas in the
\* order of the enumeration, whatever order the promises are fulfilled in
GetAllSchemasInEnumerationOrder ==
    \A c \in Calls :
        LET rec == calls[c]
            bases == BaseTables(store.tables)
        IN  (rec.via = "task" /\ rec.input.task = "get-all-schemas")
            => /\ rec.pc = "fanout"
                  => /\ Len(rec.kids) = Len(bases)
                     /\ \A i \in 1..Len(bases) : rec.kids[i].arg = bases[i].table_name
               /\ (rec.pc = "done" /\ rec.result.success)
                  => /\ Len(rec.result.data.schemas) = Len(bases)
                     /\ \A i \in 1..Len(bases) :
                          rec.result.data.schemas[i] = Schema(bases[i].table_name, store)
               /\ rec.sent <= 1 + 3 * Len(bases)

\* the schema of the second table is complete while the first table's
\* statements are still being answered
SecondSchemaFulfilledFirst ==
    \E c \in Calls :
        /\ calls[c].via = "task" /\ calls[c].input.task = "get-all-schemas"
        /\ calls[c].pc = "fanout"
        /\ Len(calls[c].kids) = 2
        /\ calls[c].kids[1].st = "executing"
        /\ calls[c].kids[2].st = "done"
        /\ calls[c].kids[2].out = Schema("users", store)
\* the call's request is list-tables in enriched mode
Enriched(rec) == rec.via = "task" /\ rec.input.task = "list-tables" /\ FansOut(rec.input)

\* the names and types of a listing, in its order
NamesAndTypes(tables) ==
    [i \in 1..Len(tables) |->
        [table_name |-> tables[i].table_name, table_type |-> tables[i].table_type]]

\* C25: list-tables in enriched mode sends one COUNT(*) per table of type
\* BASE TABLE and none for a view; its result has the tables of the plain
\* listing in the same order, with exact_row_count on the base tables and
\* only on them; in plain mode no descriptor has exact_row_count
EnrichedCountsBaseTablesOnly ==
    \A c \in Calls :
        LET rec == calls[c]
            bases == Len(BaseTables(store.tables))
        IN  (rec.via = "task" /\ rec.input.task = "list-tables")
            => /\ (Enriched(rec) /\ rec.pc = "fanout")
                  => /\ Len(rec.kids) = Len(store.tables)
                     /\ \A i \in 1..Len(rec.kids) :
                          /\ rec.kids[i].arg = store.tables[i]
                          /\ store.tables[i].table_type # "BASE TABLE"
                             => rec.kids[i].st = "done" /\ rec.kids[i].q = 0
               /\ rec.sent <= (IF Enriched(rec) THEN 1 + bases ELSE 1)
               /\ (rec.pc = "done" /\ rec.result.success)
                  => LET out == rec.result.data.tables
                     IN  /\ NamesAndTypes(out) = NamesAndTypes(store.tables)
                         /\ Enriched(rec) => rec.sent = 1 + bases
                         /\ \A i \in 1..Len(out) :
                              Has(out[i], "exact_row_count")
                              <=> (Enriched(rec) /\ out[i].table_type = "BASE TABLE")

\* an enriched listing of two base tables and a view has returned, with a
\* count on each base table and none on the view
EnrichedListingReturned ==
    \E c \in Calls :
        /\ Enriched(calls[c]) /\ calls[c].pc = "done" /\ calls[c].result.success
        /\ calls[c].sent = 3
        /\ Len(calls[c].result.data.tables) = 3
        /\ calls[c].result.data.tables[1].exact_row_count = 0
        /\ calls[c].result.data.tables[2].exact_row_count = store.rows
        /\ ~Has(calls[c].result.data.tables[3], "exact_row_count")
\* C26: getConnection hands a task no handle whose end() has been called, and
\* no task has called execute on such a handle (the driver refuses it with
\* its closed-state error)
NoUseOfEndedHandle ==
    \A c \in Calls :
        LET rec == calls[c]
        IN  rec.via = "task"
            => /\ rec.pc = "have_db" => handles[rec.db].st = "open"
               /\ (rec.pc = "done" /\ ~rec.result.success)
                  => rec.result.error # ErrClosedState
\* C27: a query call sends a write-classified statement only in a state
\* where the configuration's allowWrite, as getConfig resolves it at that
\* moment, is true
WriteSentOnlyWhileEnabled ==
    [][\A c \in Calls :
         (/\ calls[c].pc # "executing"
          /\ calls'[c].pc = "executing"
          /\ IsQuery(calls'[c])
          /\ isWriteQuery(calls'[c].stmt))
         => getConfig.allowWrite
      ]_vars
\* C28: a query call whose statement is write-classified and fails a gate
\* makes no connection attempt, and the error it returns is that gate's
\* error, whether or not the database can be reached
PermissionCheckBeforeConnection ==
    \A c \in Calls :
        LET rec == calls[c]
            gate == WriteGate(rec.input.params.sql, AllowWriteArg(rec.input.params), rec.config)
        IN  (IsQuery(rec) /\ rec.config # NoKeys /\ gate # "pass")
            => /\ rec.conns = 0
               /\ (rec.via = "task" /\ rec.pc = "done")
                  => /\ rec.result.success = FALSE
                     /\ rec.result.error = (IF gate = "caller" THEN ErrCallerGate ELSE ErrConfigGate)
\* C29: the stored overrides change only in the step that begins a
\* configureAgent call or a call given a config argument; that step sets the
\* keys the argument names and leaves every other stored key as it was; no
\* step removes a key, so the overrides stay in force for the calls after it
OverridesCumulative ==
    [][/\ \A k \in DOMAIN _config : k \in DOMAIN _config'
       /\ _config' # _config
          => \E c \in Calls, config \in ConfigInputs :
               /\ calls[c].via = "none"
               /\ calls'[c].via \in {"task", "configure"}
               /\ DOMAIN _config' = DOMAIN _config \cup DOMAIN config
               /\ \A k \in DOMAIN config : _config'[k] = config[k]
               /\ \A k \in DOMAIN _config \ DOMAIN config : _config'[k] = _config[k]
      ]_vars

\* two overrides given by two calls are both stored, and a query call after
\* them runs with both: writes disabled although the environment enables
\* them, on a connection to the overriding database
OverridesStillInForce ==
    /\ DOMAIN _config = {"allowWrite", "mysqlDb"}
    /\ Has(env, "MYSQL_ALLOW_WRITE")
    /\ \E c \in Calls :
         /\ IsQuery(calls[c])
         /\ calls[c].pc = "executing"
         /\ calls[c].config.allowWrite = FALSE
         /\ Has(handles[calls[c].db].opts, "database")
         /\ handles[calls[c].db].opts.database = "other"
\* the tokens of a statement that are the word LIMIT, in any case
LimitWords(sql) == Cardinality({i \in 1..Len(sql) : UpperTok(sql[i]) = "LIMIT"})

\* C30: enforceLimit applied to its own result, with the same limit, returns
\* that result: the second application appends no LIMIT
EnforceLimitIdempotent ==
    Applied("enforceLimitTwice")
    => /\ probe.out = probe.once
       /\ LimitWords(probe.out) <= LimitWords(probe.sql) + 1

\* enforceLimit has appended the limit to a SELECT, and applied to the
\* result it has appended nothing
LimitAppendedOnce ==
    /\ Applied("enforceLimitTwice")
    /\ FirstWord(probe.sql) = "SELECT"
    /\ LimitWords(probe.sql) = 0
    /\ probe.once # probe.sql
    /\ EndsInLimit(probe.once, Num(1000))
    /\ probe.out = probe.once
    /\ LimitWords(probe.out) = 1
====










